---- MODULE Spec2Model ----
(***************************************************************************)
(* Tasks-Manager: the React client (App, TaskList, TaskDetail,             *)
(* CommentList), its api.js transport helper, and the REST back end it     *)
(* talks to.  Every request is a record in `net`: issued by a user action  *)
(* or an effect, answered by the server, and then handled by the           *)
(* continuation of the async function that issued it.  A continuation      *)
(* sees the state variables of the render that created it (its closure),   *)
(* so each request carries the values its continuation captured.           *)
(***************************************************************************)
EXTENDS Integers, Sequences, FiniteSets, TLC

\* ------------------------------------------------------------------ bounds
MaxTaskId    == 2      \* ids the server may assign to tasks
MaxCommentId == 2      \* ids the server may assign to comments
MaxInFlight  == 2      \* requests simultaneously unanswered or unhandled
MaxRequests  == 4      \* requests the client issues in one session

\* ------------------------------------------------------------------ values
NoId      == 0                     \* JS null / undefined for an id (falsy)
Titles    == {"A", "B"}            \* non-empty titles typed into the detail form
NewTitles == {"A"}                 \* non-empty titles typed into the create form
Contents  == {"x", "y"}            \* non-empty comment texts a user may type
TaskIds    == 1..MaxTaskId
CommentIds == 1..MaxCommentId
Slots      == 1..MaxInFlight

Descriptions == {"", "d"}        \* description texts ("" also stands for an absent one)
NoTask    == [id |-> NoId, title |-> "", description |-> ""]

\* ------------------------------------------------------------------ api.js
\* A JSON value as far as http looks into it: its type, the text of a string,
\* and for an object the members `error` and `error.message`.
JNull == [ty |-> "null", str |-> "", error |-> "undefined", message |-> "undefined", mstr |-> ""]
JStr(s) == [ty |-> "string", str |-> s, error |-> "undefined", message |-> "undefined", mstr |-> ""]
JObj(e, m, ms) == [ty |-> "object", str |-> "", error |-> e, message |-> m, mstr |-> ms]

\* Response texts.  The first five are produced by the server of this
\* repository; the others are bodies a proxy or a crashed server may send.
TextEmpty     == ""
TextData      == "{data}"
TextNotFound  == "{error:{message:'Not found',kind:'not_found'}}"
TextInvalid   == "{error:{message:'Invalid',kind:'validation'}}"
TextInternal  == "{error:{message:'Internal server error',kind:'internal'}}"
TextEmptyMsg  == "{error:{message:''}}"
TextNoMsg     == "{error:{kind:'internal'}}"
TextNullErr   == "{error:null}"
TextStrErr    == "{error:'boom'}"
TextJsonNull  == "null"
TextJsonStr   == "'Proxy error'"
TextHtml      == "<html>Bad Gateway</html>"

Texts == {TextEmpty, TextData, TextNotFound, TextInvalid, TextInternal, TextEmptyMsg,
          TextNoMsg, TextNullErr, TextStrErr, TextJsonNull, TextJsonStr, TextHtml}

\* JSON.parse(text): [valid |-> FALSE] stands for the SyntaxError it throws.
JSONParse(text) ==
  CASE text = TextData     -> [valid |-> TRUE, val |-> JObj("undefined", "undefined", "")]
    [] text = TextNotFound -> [valid |-> TRUE, val |-> JObj("object", "string", "Not found")]
    [] text = TextInvalid  -> [valid |-> TRUE, val |-> JObj("object", "string", "Invalid")]
    [] text = TextInternal -> [valid |-> TRUE, val |-> JObj("object", "string", "Internal server error")]
    [] text = TextEmptyMsg -> [valid |-> TRUE, val |-> JObj("object", "string", "")]
    [] text = TextNoMsg    -> [valid |-> TRUE, val |-> JObj("object", "undefined", "")]
    [] text = TextNullErr  -> [valid |-> TRUE, val |-> JObj("null", "undefined", "")]
    [] text = TextStrErr   -> [valid |-> TRUE, val |-> JObj("string", "undefined", "")]
    [] text = TextJsonNull -> [valid |-> TRUE, val |-> JNull]
    [] text = TextJsonStr  -> [valid |-> TRUE, val |-> JStr("Proxy error")]
    [] OTHER               -> [valid |-> FALSE, val |-> JNull]

\* res.ok of the Fetch API: the status is in 200..299.
ResOk(status) == status >= 200 /\ status <= 299

\* JS truthiness of a JSON value.
Truthy(v) == \/ v.ty = "object"
             \/ v.ty = "string" /\ v.str # ""

\* body && body.error && body.error.message, as a truth value.
HasMessage(body) ==
  /\ Truthy(body)
  /\ body.ty = "object"
  /\ body.error = "object"
  /\ body.message = "string"
  /\ body.mstr # ""

ParseBody(text) ==
  IF text # ""
    THEN (IF JSONParse(text).valid THEN JSONParse(text).val ELSE JStr(text))
    ELSE JNull

\* http with the server's message dropped in favour of the status text.
httpStatusTextOnly(res) ==
  LET body == ParseBody(res.text) IN
  IF ~ResOk(res.status)
    THEN [threw |-> TRUE, body |-> JNull, message |-> res.statusText,
          status |-> res.status, payload |-> body]
    ELSE [threw |-> FALSE, body |-> body, message |-> "", status |-> 0, payload |-> JNull]

\* The outcome of http(path, options) for the response res:
\* threw = FALSE: returns `body`; threw = TRUE: throws err with
\* err.message, err.status, err.payload.
http(res) ==
  LET body == ParseBody(res.text) IN
  IF ~ResOk(res.status)
    THEN [threw |-> TRUE, body |-> JNull,
          message |-> IF HasMessage(body) THEN body.mstr ELSE res.statusText,
          status |-> res.status, payload |-> body]
    ELSE [threw |-> FALSE, body |-> body, message |-> "", status |-> 0, payload |-> JNull]

\* No outcome yet.
NoOut == [threw |-> FALSE, body |-> JNull, message |-> "", status |-> 0, payload |-> JNull]

\* ------------------------------------------------------------------ state
VARIABLES
  sTasks,        \* server: the task table, in creation order
  sComments,     \* server: the comment table, in creation order
  nextTaskId,    \* server: next task id to assign
  nextCommentId, \* server: next comment id to assign
  net,           \* the requests in flight, one per slot
  tasks,         \* App: useState([])
  selectedId,    \* App: useState(null)
  loading,       \* App: useState(false)
  appErr,        \* App: err
  title,         \* TaskList: title input
  description,   \* TaskList: description input
  listErr,       \* TaskList: err
  detailErr,     \* TaskDetail: err
  comments,      \* CommentList: comments
  clLoading,     \* CommentList: loading
  clErr,         \* CommentList: err
  failed,        \* history: some request was answered with an error
  issued,        \* history: requests issued so far, follow-ups of a handler included
  httpRes,       \* a response handed to http on its own
  httpOut,       \* what http made of httpRes
  httpPc         \* "call" before that call of http, "done" after it

vars == <<sTasks, sComments, nextTaskId, nextCommentId, net, tasks, selectedId, loading,
          appErr, title, description, listErr, detailErr, comments, clLoading, clErr, failed, issued,
          httpRes, httpOut, httpPc>>

serverVars == <<sTasks, sComments, nextTaskId, nextCommentId>>
appVars    == <<tasks, selectedId, loading, appErr>>
formVars   == <<title, description, listErr>>
clVars     == <<comments, clLoading, clErr>>
httpVars   == <<httpRes, httpOut, httpPc>>

\* ------------------------------------------------------------------ requests
NoRes == [status |-> 0, statusText |-> "", text |-> ""]

\* An empty slot.
NoReq == [kind |-> "none", id |-> NoId, cid |-> NoId, title |-> "", description |-> "",
          content |-> "", snap |-> NoId, live |-> FALSE, phase |-> "none", res |-> NoRes,
          tasks |-> <<>>, task |-> NoTask, comments |-> <<>>]

TaskMutations    == {"createTask", "updateTask", "deleteTask"}
CommentMutations == {"createComment", "updateComment", "deleteComment"}
CommentKinds     == CommentMutations \cup {"listComments"}

Free(n) == {s \in Slots : n[s].kind = "none"}

\* fetch(): the request takes the lowest free slot.
Issue(n, r) ==
  LET s == CHOOSE x \in Free(n) : \A y \in Free(n) : x <= y
  IN [n EXCEPT ![s] = [r EXCEPT !.phase = "sent"]]

Remove(n, s) == [n EXCEPT ![s] = NoReq]

Sent(s)     == net[s].phase = "sent"
Answered(s) == net[s].phase = "answered"

\* ------------------------------------------------------------------ arrays
Ids(seq) == {seq[i].id : i \in 1..Len(seq)}

\* Array.prototype.find(t => t.id === id) || null
Find(seq, id) ==
  IF \E i \in 1..Len(seq) : seq[i].id = id
    THEN seq[CHOOSE i \in 1..Len(seq) :
               seq[i].id = id /\ \A j \in 1..(i - 1) : seq[j].id # id]
    ELSE NoTask

\* ------------------------------------------------------------------ server
Ok200         == [status |-> 200, statusText |-> "OK", text |-> TextData]
NoContent     == [status |-> 204, statusText |-> "NO CONTENT", text |-> TextEmpty]
NotFound      == [status |-> 404, statusText |-> "NOT FOUND", text |-> TextNotFound]
BadRequest    == [status |-> 400, statusText |-> "BAD REQUEST", text |-> TextInvalid]
InternalError == [status |-> 500, statusText |-> "INTERNAL SERVER ERROR", text |-> TextInternal]

TaskExists(id)       == id \in Ids(sTasks)
CommentExists(t, c)  == \E i \in 1..Len(sComments) :
                          sComments[i].id = c /\ sComments[i].task_id = t
CommentsOf(t)        == SelectSeq(sComments, LAMBDA c : c.task_id = t)

Reply(s, res) == [net EXCEPT ![s].phase = "answered", ![s].res = res]

\* GET /api/tasks
DoListTasks(s) ==
  /\ net' = [Reply(s, Ok200) EXCEPT ![s].tasks = sTasks]
  /\ UNCHANGED <<httpVars, serverVars, failed>>

\* POST /api/tasks
DoCreateTask(s) ==
  LET r == net[s]
      t == [id |-> nextTaskId, title |-> r.title, description |-> r.description]
  IN IF r.title = ""
       THEN /\ net' = Reply(s, BadRequest)
            /\ failed' = TRUE
            /\ UNCHANGED serverVars
       ELSE /\ nextTaskId <= MaxTaskId
            /\ sTasks' = Append(sTasks, t)
            /\ nextTaskId' = nextTaskId + 1
            /\ net' = [Reply(s, Ok200) EXCEPT ![s].task = t]
            /\ UNCHANGED <<sComments, nextCommentId, failed>>

\* PUT /api/tasks/:id
DoUpdateTask(s) ==
  LET r == net[s]
      t == [id |-> r.id, title |-> r.title, description |-> r.description]
  IN IF ~TaskExists(r.id)
       THEN /\ net' = Reply(s, NotFound)
            /\ failed' = TRUE
            /\ UNCHANGED serverVars
       ELSE IF r.title = ""
       THEN /\ net' = Reply(s, BadRequest)
            /\ failed' = TRUE
            /\ UNCHANGED serverVars
       ELSE /\ sTasks' = [i \in 1..Len(sTasks) |->
                            IF sTasks[i].id = r.id THEN t ELSE sTasks[i]]
            /\ net' = [Reply(s, Ok200) EXCEPT ![s].task = t]
            /\ UNCHANGED <<sComments, nextTaskId, nextCommentId, failed>>

\* DELETE /api/tasks/:id, cascading to the task's comments
DoDeleteTask(s) ==
  LET r == net[s]
  IN IF ~TaskExists(r.id)
       THEN /\ net' = Reply(s, NotFound)
            /\ failed' = TRUE
            /\ UNCHANGED serverVars
       ELSE /\ sTasks' = SelectSeq(sTasks, LAMBDA t : t.id # r.id)
            /\ sComments' = SelectSeq(sComments, LAMBDA c : c.task_id # r.id)
            /\ net' = Reply(s, NoContent)
            /\ UNCHANGED <<nextTaskId, nextCommentId, failed>>

\* GET /api/tasks/:taskId/comments
DoListComments(s) ==
  LET r == net[s]
  IN IF ~TaskExists(r.id)
       THEN /\ net' = Reply(s, NotFound)
            /\ failed' = TRUE
            /\ UNCHANGED serverVars
       ELSE /\ net' = [Reply(s, Ok200) EXCEPT ![s].comments = CommentsOf(r.id)]
            /\ UNCHANGED <<httpVars, serverVars, failed>>

\* POST /api/tasks/:taskId/comments
DoCreateComment(s) ==
  LET r == net[s]
      c == [id |-> nextCommentId, task_id |-> r.id, content |-> r.content]
  IN IF ~TaskExists(r.id)
       THEN /\ net' = Reply(s, NotFound)
            /\ failed' = TRUE
            /\ UNCHANGED serverVars
       ELSE IF r.content = ""
       THEN /\ net' = Reply(s, BadRequest)
            /\ failed' = TRUE
            /\ UNCHANGED serverVars
       ELSE /\ nextCommentId <= MaxCommentId
            /\ sComments' = Append(sComments, c)
            /\ nextCommentId' = nextCommentId + 1
            /\ net' = Reply(s, Ok200)
            /\ UNCHANGED <<sTasks, nextTaskId, failed>>

\* PUT /api/tasks/:taskId/comments/:commentId
DoUpdateComment(s) ==
  LET r == net[s]
  IN IF ~TaskExists(r.id) \/ ~CommentExists(r.id, r.cid)
       THEN /\ net' = Reply(s, NotFound)
            /\ failed' = TRUE
            /\ UNCHANGED serverVars
       ELSE IF r.content = ""
       THEN /\ net' = Reply(s, BadRequest)
            /\ failed' = TRUE
            /\ UNCHANGED serverVars
       ELSE /\ sComments' = [i \in 1..Len(sComments) |->
                               IF sComments[i].id = r.cid
                                 THEN [sComments[i] EXCEPT !.content = r.content]
                                 ELSE sComments[i]]
            /\ net' = Reply(s, Ok200)
            /\ UNCHANGED <<sTasks, nextTaskId, nextCommentId, failed>>

\* DELETE /api/tasks/:taskId/comments/:commentId
DoDeleteComment(s) ==
  LET r == net[s]
  IN IF ~TaskExists(r.id) \/ ~CommentExists(r.id, r.cid)
       THEN /\ net' = Reply(s, NotFound)
            /\ failed' = TRUE
            /\ UNCHANGED serverVars
       ELSE /\ sComments' = SelectSeq(sComments, LAMBDA c : c.id # r.cid)
            /\ net' = Reply(s, NoContent)
            /\ UNCHANGED <<sTasks, nextTaskId, nextCommentId, failed>>

\* The server handles one request, atomically; the client is not involved.
clientVars == <<appVars, formVars, detailErr, clVars, issued, httpVars>>

ServeListTasks(s) ==
  /\ Sent(s) /\ net[s].kind = "listTasks"
  /\ DoListTasks(s)
  /\ UNCHANGED clientVars

ServeCreateTask(s) ==
  /\ Sent(s) /\ net[s].kind = "createTask"
  /\ DoCreateTask(s)
  /\ UNCHANGED clientVars

ServeUpdateTask(s) ==
  /\ Sent(s) /\ net[s].kind = "updateTask"
  /\ DoUpdateTask(s)
  /\ UNCHANGED clientVars

ServeDeleteTask(s) ==
  /\ Sent(s) /\ net[s].kind = "deleteTask"
  /\ DoDeleteTask(s)
  /\ UNCHANGED clientVars

ServeListComments(s) ==
  /\ Sent(s) /\ net[s].kind = "listComments"
  /\ DoListComments(s)
  /\ UNCHANGED clientVars

ServeCreateComment(s) ==
  /\ Sent(s) /\ net[s].kind = "createComment"
  /\ DoCreateComment(s)
  /\ UNCHANGED clientVars

ServeUpdateComment(s) ==
  /\ Sent(s) /\ net[s].kind = "updateComment"
  /\ DoUpdateComment(s)
  /\ UNCHANGED clientVars

ServeDeleteComment(s) ==
  /\ Sent(s) /\ net[s].kind = "deleteComment"
  /\ DoDeleteComment(s)
  /\ UNCHANGED clientVars

\* An unexpected failure: nothing is applied and the client gets a 500.
ServeInternalError(s) ==
  /\ Sent(s)
  /\ net' = Reply(s, InternalError)
  /\ failed' = TRUE
  /\ UNCHANGED <<serverVars, clientVars>>

\* ------------------------------------------------------------------ client helpers
\* e.message || fallback
ErrText(message, fallback) == IF message # "" THEN message ELSE fallback

ReqListTasks(closureSelectedId) ==
  [NoReq EXCEPT !.kind = "listTasks", !.snap = closureSelectedId]
ReqCreateTask(t, d) ==
  [NoReq EXCEPT !.kind = "createTask", !.title = t, !.description = d]
ReqUpdateTask(id, t, d) ==
  [NoReq EXCEPT !.kind = "updateTask", !.id = id, !.title = t, !.description = d]
ReqDeleteTask(id, closureSelectedId) ==
  [NoReq EXCEPT !.kind = "deleteTask", !.id = id, !.snap = closureSelectedId]
ReqListComments(taskId, live) ==
  [NoReq EXCEPT !.kind = "listComments", !.id = taskId, !.live = live]
ReqComment(kind, taskId, cid, c) ==
  [NoReq EXCEPT !.kind = kind, !.id = taskId, !.cid = cid, !.content = c, !.live = TRUE]

\* The task form's `required` title and the comment form's `required` content.
Required(v) == v # ""

\* selectedTask of the current render.
selectedTask(ts, sel) == Find(ts, sel)

\* A CommentList that leaves the tree: its state is dropped, and the
\* continuations of its requests keep running against a dead instance.
Unmount(n) ==
  [s \in Slots |-> IF n[s].kind \in CommentKinds THEN [n[s] EXCEPT !.live = FALSE] ELSE n[s]]

\* {selectedId && <CommentList taskId={selectedId} />} and the effect on
\* [taskId], after selectedId went from old to new: unmounted when new is
\* falsy, mounted afresh when old was, and otherwise the same instance
\* re-fetching for the new taskId.
CommentListAfter(old, new, n, cl) ==
  IF new = old THEN [net |-> n, comments |-> cl.comments, loading |-> cl.loading, err |-> cl.err]
  ELSE IF new = NoId
    THEN [net |-> Unmount(n), comments |-> <<>>, loading |-> FALSE, err |-> ""]
  ELSE IF old = NoId
    THEN [net |-> Issue(n, ReqListComments(new, TRUE)), comments |-> <<>>,
          loading |-> TRUE, err |-> ""]
  ELSE [net |-> Issue(n, ReqListComments(new, TRUE)), comments |-> cl.comments,
        loading |-> TRUE, err |-> ""]

CL == [comments |-> comments, loading |-> clLoading, err |-> clErr]

\* TaskDetail's effect on [task]: err is reset when the task object changes.
DetailErrAfter(oldTask, newTask, replaced, err) ==
  IF oldTask # newTask \/ (replaced /\ newTask # NoTask) THEN "" ELSE err

\* fetchTasks: if (res.data.length && !selectedId) setSelectedId(res.data[0].id)
fetchTasksSelect(data, closureSelectedId, sel) ==
  IF Len(data) # 0 /\ closureSelectedId = NoId THEN data[1].id ELSE sel

\* addTask: setTasks((prev) => [...prev, newTask])
addTaskAppend(prev, newTask) == Append(prev, newTask)

\* removeTask: setTasks((prev) => prev.filter((t) => t.id !== id))
removeTaskFilter(prev, id) == SelectSeq(prev, LAMBDA t : t.id # id)

\* removeTask: if (selectedId === id) setSelectedId(null)
removeTaskSelect(id, closureSelectedId, sel) ==
  IF closureSelectedId = id THEN NoId ELSE sel

\* saveTask as an upsert: a task missing from the list is added again.
saveTaskUpsert(prev, id, updated) ==
  IF id \in Ids(prev)
    THEN [i \in 1..Len(prev) |-> IF prev[i].id = id THEN updated ELSE prev[i]]
    ELSE Append(prev, updated)

\* saveTask: setTasks((prev) => prev.map((t) => (t.id === id ? updated : t)))
saveTaskMap(prev, id, updated) ==
  [i \in 1..Len(prev) |-> IF prev[i].id = id THEN updated ELSE prev[i]]

\* TaskList.submit with the inputs cleared in a finally block.
submitDoneClearsAlways(out, t, d, err) ==
  IF out.threw
    THEN [title |-> "", description |-> "", err |-> ErrText(out.message, "Failed to create task")]
    ELSE [title |-> "", description |-> "", err |-> err]

\* TaskList.submit after `await onCreate(...)`: the inputs and err.
submitDone(out, t, d, err) ==
  IF out.threw
    THEN [title |-> t, description |-> d, err |-> ErrText(out.message, "Failed to create task")]
    ELSE [title |-> "", description |-> "", err |-> err]

\* add / save / remove with fetchComments() in a finally block.
refetchesAlways(out) == TRUE

\* add / save / remove after the awaited mutation: fetchComments() is
\* called in the try block only.
refetches(out) == ~out.threw

\* ------------------------------------------------------------------ initial state
\* The data base the server starts with, and the client after its first
\* render and the mount effect of App, which has called fetchTasks().
InitialTasks(k) == [i \in 1..k |-> [id |-> i, title |-> "A", description |-> ""]]
InitialComments(k) == [i \in 1..k |-> [id |-> i, task_id |-> i, content |-> "x"]]

Init ==
  /\ \E k \in 0..2 : \E c \in 0..1 :
       /\ c <= k
       /\ sTasks = InitialTasks(k)
       /\ sComments = InitialComments(c)
       /\ nextTaskId = k + 1
       /\ nextCommentId = c + 1
  /\ net = Issue([s \in Slots |-> NoReq], ReqListTasks(NoId))
  /\ tasks = <<>>
  /\ selectedId = NoId
  /\ loading = TRUE
  /\ appErr = ""
  /\ title = ""
  /\ description = ""
  /\ listErr = ""
  /\ detailErr = ""
  /\ comments = <<>>
  /\ clLoading = FALSE
  /\ clErr = ""
  /\ failed = FALSE
  /\ issued = 2
  /\ httpRes = NoRes
  /\ httpOut = NoOut
  /\ httpPc = "done"

\* ------------------------------------------------------------------ user actions
PendingCreates(kind) == Cardinality({s \in Slots : net[s].kind = kind /\ Sent(s)})

\* onChange of the title input of the create form
setTitle(v) ==
  /\ title # v
  /\ title' = v
  /\ UNCHANGED <<httpVars, serverVars, net, appVars, description, listErr, detailErr, clVars, failed, issued>>

\* onChange of the description input of the create form
setDescription(v) ==
  /\ description # v
  /\ description' = v
  /\ UNCHANGED <<httpVars, serverVars, net, appVars, title, listErr, detailErr, clVars, failed, issued>>

\* TaskList.submit up to `await onCreate(...)`, i.e. up to addTask's
\* `await createTask(body)`.
TaskListSubmit ==
  /\ Required(title)
  /\ Free(net) # {}
  /\ issued + 2 <= MaxRequests
  /\ issued' = issued + 2
  /\ nextTaskId + PendingCreates("createTask") <= MaxTaskId
  /\ listErr' = ""
  /\ net' = Issue(net, ReqCreateTask(title, description))
  /\ UNCHANGED <<httpVars, serverVars, appVars, title, description, detailErr, clVars, failed>>

\* onSelect = setSelectedId, from the button of a listed task
onSelect(id) ==
  /\ id \in Ids(tasks)
  /\ id # selectedId
  /\ Free(net) # {}
  /\ issued + 1 <= MaxRequests
  /\ issued' = issued + 1
  /\ selectedId' = id
  /\ LET cl == CommentListAfter(selectedId, id, net, CL)
     IN /\ net' = cl.net
        /\ comments' = cl.comments
        /\ clLoading' = cl.loading
        /\ clErr' = cl.err
  /\ detailErr' = DetailErrAfter(selectedTask(tasks, selectedId), selectedTask(tasks, id),
                                 FALSE, detailErr)
  /\ UNCHANGED <<httpVars, serverVars, tasks, loading, appErr, formVars, failed>>

\* onDelete = removeTask, up to `await deleteTask(id)`
onDelete(id) ==
  /\ id \in Ids(tasks)
  /\ Free(net) # {}
  /\ issued + 1 <= MaxRequests
  /\ issued' = issued + 1
  /\ net' = Issue(net, ReqDeleteTask(id, selectedId))
  /\ UNCHANGED <<httpVars, serverVars, appVars, formVars, detailErr, clVars, failed>>

\* TaskDetail.submit up to `await onUpdate(task.id, {title, description})`
TaskDetailSubmit(t, d) ==
  /\ ~loading
  /\ selectedTask(tasks, selectedId) # NoTask
  /\ Required(t)
  /\ Free(net) # {}
  /\ issued + 1 <= MaxRequests
  /\ issued' = issued + 1
  /\ detailErr' = ""
  /\ net' = Issue(net, ReqUpdateTask(selectedTask(tasks, selectedId).id, t, d))
  /\ UNCHANGED <<httpVars, serverVars, appVars, formVars, clVars, failed>>

\* CommentList.add up to `await createComment(taskId, ...)`
add(c) ==
  /\ selectedId # NoId
  /\ Required(c)
  /\ Free(net) # {}
  /\ issued + 2 <= MaxRequests
  /\ issued' = issued + 2
  /\ nextCommentId + PendingCreates("createComment") <= MaxCommentId
  /\ clErr' = ""
  /\ net' = Issue(net, ReqComment("createComment", selectedId, NoId, c))
  /\ UNCHANGED <<httpVars, serverVars, appVars, formVars, detailErr, comments, clLoading, failed>>

\* EditableComment.save -> CommentList.save up to `await updateComment(...)`
save(id, c) ==
  /\ selectedId # NoId
  /\ ~clLoading
  /\ id \in Ids(comments)
  /\ Required(c)
  /\ Free(net) # {}
  /\ issued + 2 <= MaxRequests
  /\ issued' = issued + 2
  /\ clErr' = ""
  /\ net' = Issue(net, ReqComment("updateComment", selectedId, id, c))
  /\ UNCHANGED <<httpVars, serverVars, appVars, formVars, detailErr, comments, clLoading, failed>>

\* CommentList.remove up to `await deleteComment(taskId, id)`
remove(id) ==
  /\ selectedId # NoId
  /\ ~clLoading
  /\ id \in Ids(comments)
  /\ Free(net) # {}
  /\ issued + 2 <= MaxRequests
  /\ issued' = issued + 2
  /\ clErr' = ""
  /\ net' = Issue(net, ReqComment("deleteComment", selectedId, id, ""))
  /\ UNCHANGED <<httpVars, serverVars, appVars, formVars, detailErr, comments, clLoading, failed>>

\* ------------------------------------------------------------------ continuations
\* fetchTasks from `await listTasks()` on; selectedId is the one of the
\* render whose effect called it.
fetchTasksResume(s) ==
  /\ Answered(s) /\ net[s].kind = "listTasks"
  /\ LET r == net[s]
         out == http(r.res)
         newTasks == IF out.threw THEN tasks ELSE r.tasks
         newSel == IF out.threw THEN selectedId
                   ELSE fetchTasksSelect(r.tasks, r.snap, selectedId)
         cl == CommentListAfter(selectedId, newSel, Remove(net, s), CL)
     IN /\ tasks' = newTasks
        /\ selectedId' = newSel
        /\ loading' = FALSE
        /\ appErr' = IF out.threw THEN ErrText(out.message, "Failed to load tasks") ELSE appErr
        /\ detailErr' = ""
        /\ net' = cl.net
        /\ comments' = cl.comments
        /\ clLoading' = cl.loading
        /\ clErr' = cl.err
  /\ UNCHANGED <<httpVars, serverVars, formVars, failed, issued>>

\* addTask from `await createTask(body)` on, then the rest of TaskList.submit
addTaskResume(s) ==
  /\ Answered(s) /\ net[s].kind = "createTask"
  /\ LET r == net[s]
         out == http(r.res)
         newTasks == IF out.threw THEN tasks ELSE addTaskAppend(tasks, r.task)
         newSel == IF out.threw THEN selectedId ELSE r.task.id
         cl == CommentListAfter(selectedId, newSel, Remove(net, s), CL)
         form == submitDone(out, title, description, listErr)
     IN /\ tasks' = newTasks
        /\ selectedId' = newSel
        /\ title' = form.title
        /\ description' = form.description
        /\ listErr' = form.err
        /\ detailErr' = DetailErrAfter(selectedTask(tasks, selectedId),
                                       selectedTask(newTasks, newSel), FALSE, detailErr)
        /\ net' = cl.net
        /\ comments' = cl.comments
        /\ clLoading' = cl.loading
        /\ clErr' = cl.err
  /\ UNCHANGED <<httpVars, serverVars, loading, appErr, failed, issued>>

\* removeTask from `await deleteTask(id)` on; a rejection is caught nowhere
removeTaskResume(s) ==
  /\ Answered(s) /\ net[s].kind = "deleteTask"
  /\ LET r == net[s]
         out == http(r.res)
         newTasks == IF out.threw THEN tasks ELSE removeTaskFilter(tasks, r.id)
         newSel == IF out.threw THEN selectedId
                   ELSE removeTaskSelect(r.id, r.snap, selectedId)
         cl == CommentListAfter(selectedId, newSel, Remove(net, s), CL)
     IN /\ tasks' = newTasks
        /\ selectedId' = newSel
        /\ detailErr' = DetailErrAfter(selectedTask(tasks, selectedId),
                                       selectedTask(newTasks, newSel), FALSE, detailErr)
        /\ net' = cl.net
        /\ comments' = cl.comments
        /\ clLoading' = cl.loading
        /\ clErr' = cl.err
  /\ UNCHANGED <<httpVars, serverVars, loading, appErr, formVars, failed, issued>>

\* saveTask from `await updateTask(id, body)` on, then the rest of
\* TaskDetail.submit
saveTaskResume(s) ==
  /\ Answered(s) /\ net[s].kind = "updateTask"
  /\ LET r == net[s]
         out == http(r.res)
         newTasks == IF out.threw THEN tasks ELSE saveTaskMap(tasks, r.id, r.task)
     IN /\ tasks' = newTasks
        /\ detailErr' = IF out.threw THEN ErrText(out.message, "Failed to save")
                        ELSE DetailErrAfter(selectedTask(tasks, selectedId),
                                            selectedTask(newTasks, selectedId),
                                            selectedId = r.id, detailErr)
  /\ net' = Remove(net, s)
  /\ UNCHANGED <<httpVars, serverVars, selectedId, loading, appErr, formVars, clVars, failed, issued>>

\* fetchComments from `await listComments(taskId)` on
fetchCommentsResume(s) ==
  /\ Answered(s) /\ net[s].kind = "listComments"
  /\ LET r == net[s]
         out == http(r.res)
     IN IF r.live
          THEN /\ comments' = IF out.threw THEN comments ELSE r.comments
               /\ clErr' = IF out.threw THEN ErrText(out.message, "Failed to load comments")
                           ELSE clErr
               /\ clLoading' = FALSE
          ELSE UNCHANGED clVars
  /\ net' = Remove(net, s)
  /\ UNCHANGED <<httpVars, serverVars, appVars, formVars, detailErr, failed, issued>>

\* add / save / remove from the awaited mutation on: fetchComments() up to
\* its `await listComments(taskId)`, or the catch block.
mutationResume(s, fallback) ==
  LET r == net[s]
      out == http(r.res)
  IN /\ Answered(s)
     /\ IF refetches(out)
          THEN /\ net' = Issue(Remove(net, s), ReqListComments(r.id, r.live))
               /\ clLoading' = IF r.live THEN TRUE ELSE clLoading
               /\ clErr' = IF r.live THEN "" ELSE clErr
          ELSE /\ net' = Remove(net, s)
               /\ clLoading' = clLoading
               /\ clErr' = IF r.live THEN ErrText(out.message, fallback) ELSE clErr
     /\ UNCHANGED <<httpVars, serverVars, appVars, formVars, detailErr, comments, failed, issued>>

addResume(s) ==
  /\ net[s].kind = "createComment"
  /\ mutationResume(s, "Failed to add comment")

saveResume(s) ==
  /\ net[s].kind = "updateComment"
  /\ mutationResume(s, "Failed to update comment")

removeResume(s) ==
  /\ net[s].kind = "deleteComment"
  /\ mutationResume(s, "Failed to delete comment")

\* ------------------------------------------------------------------ specification
Next ==
  \/ \E v \in NewTitles \cup {""} : setTitle(v)
  \/ \E v \in Descriptions : setDescription(v)
  \/ TaskListSubmit
  \/ \E id \in TaskIds : onSelect(id)
  \/ \E id \in TaskIds : onDelete(id)
  \/ \E t \in Titles : TaskDetailSubmit(t, selectedTask(tasks, selectedId).description)
  \/ \E c \in Contents : add(c)
  \/ \E id \in CommentIds : \E c \in Contents : save(id, c)
  \/ \E id \in CommentIds : remove(id)
  \/ \E s \in Slots : ServeListTasks(s)
  \/ \E s \in Slots : ServeCreateTask(s)
  \/ \E s \in Slots : ServeUpdateTask(s)
  \/ \E s \in Slots : ServeDeleteTask(s)
  \/ \E s \in Slots : ServeListComments(s)
  \/ \E s \in Slots : ServeCreateComment(s)
  \/ \E s \in Slots : ServeUpdateComment(s)
  \/ \E s \in Slots : ServeDeleteComment(s)
  \/ \E s \in Slots : ServeInternalError(s)
  \/ \E s \in Slots : fetchTasksResume(s)
  \/ \E s \in Slots : addTaskResume(s)
  \/ \E s \in Slots : removeTaskResume(s)
  \/ \E s \in Slots : saveTaskResume(s)
  \/ \E s \in Slots : fetchCommentsResume(s)
  \/ \E s \in Slots : addResume(s)
  \/ \E s \in Slots : saveResume(s)
  \/ \E s \in Slots : removeResume(s)

Spec == Init /\ [][Next]_vars

TypeOK ==
  /\ selectedId \in TaskIds \cup {NoId}
  /\ Ids(tasks) \subseteq TaskIds
  /\ nextTaskId \in 1..(MaxTaskId + 1)
  /\ nextCommentId \in 1..(MaxCommentId + 1)
  /\ \A s \in Slots : net[s].phase \in {"none", "sent", "answered"}

\* ------------------------------------------------------------------ http on its own
Statuses    == {200, 204, 302, 400, 404, 500}
StatusTexts == {"", "STATUS TEXT"}
Responses   == [status : Statuses, statusText : StatusTexts, text : Texts]

InitHttp ==
  /\ sTasks = <<>>
  /\ sComments = <<>>
  /\ nextTaskId = 1
  /\ nextCommentId = 1
  /\ net = [s \in Slots |-> NoReq]
  /\ tasks = <<>>
  /\ selectedId = NoId
  /\ loading = FALSE
  /\ appErr = ""
  /\ title = ""
  /\ description = ""
  /\ listErr = ""
  /\ detailErr = ""
  /\ comments = <<>>
  /\ clLoading = FALSE
  /\ clErr = ""
  /\ failed = FALSE
  /\ issued = 0
  /\ httpRes \in Responses
  /\ httpOut = NoOut
  /\ httpPc = "call"

httpCall ==
  /\ httpPc = "call"
  /\ httpOut' = http(httpRes)
  /\ httpPc' = "done"
  /\ UNCHANGED <<serverVars, net, appVars, formVars, detailErr, clVars, failed, issued, httpRes>>

NextHttp == httpCall

SpecHttp == InitHttp /\ [][NextHttp]_vars

\* ------------------------------------------------------------------ properties
\* The continuation of the request in slot s runs in this step.
Handled(s) == net[s].phase = "answered" /\ net'[s].phase # "answered"

\* Slot s holds a request issued in this step.
NewRequest(s) == net'[s].phase = "sent" /\ net[s].phase # "sent"

Succeeded(s) == ~http(net[s].res).threw
Failed(s)    == http(net[s].res).threw

Unanswered(kinds) == {s \in Slots : net[s].kind \in kinds /\ Sent(s)}
Pending(kinds)    == {s \in Slots : net[s].kind \in kinds}

\* C1: once a deleteTask(id) request has succeeded and removeTask has
\* finished, selectedId is not id, whatever was selected in the meantime.
C1_SelectionClearedOnDelete ==
  [][\A s \in Slots :
       (Handled(s) /\ net[s].kind = "deleteTask" /\ Succeeded(s))
         => selectedId' # net[s].id]_vars

\* C2: when the response of the initial listTasks is handled, a selection
\* that exists at that moment is not overwritten.
C2_InitialLoadKeepsSelection ==
  [][\A s \in Slots :
       (Handled(s) /\ net[s].kind = "listTasks" /\ selectedId # NoId)
         => selectedId' = selectedId]_vars

\* C3: when a request of any of the eight operations fails with server
\* message m, some widget's err is m when the handler finishes.
C3_EveryErrorSurfaced ==
  [][\A s \in Slots :
       (Handled(s) /\ Failed(s))
         => http(net[s].res).message \in {appErr', listErr', detailErr', clErr'}]_vars

\* C4: the create form, the detail form and the comment list each have at
\* most one mutating request unanswered at any time.
C4_OneMutationPerWidget ==
  /\ Cardinality(Unanswered({"createTask"})) <= 1
  /\ Cardinality(Unanswered({"updateTask"})) <= 1
  /\ Cardinality(Unanswered(CommentMutations)) <= 1

\* C5: the handler of a successful createComment, updateComment or
\* deleteComment for task t issues listComments(t), and the handler of a
\* failed one issues no listComments request.
C5_RelistAfterCommentMutation ==
  [][\A s \in Slots :
       (Handled(s) /\ net[s].kind \in CommentMutations)
         => IF Succeeded(s)
              THEN \E n \in Slots : /\ NewRequest(n)
                                    /\ net'[n].kind = "listComments"
                                    /\ net'[n].id = net[s].id
              ELSE \A n \in Slots : ~(NewRequest(n) /\ net'[n].kind = "listComments")]_vars

\* A comment written in this session is shown, so its mutation succeeded
\* and the list was fetched again.
C5_Witness == \E i \in 1..Len(comments) : comments[i].content = "y"

\* C6: with no failed request, whenever nothing is in flight after the
\* initial load, the local list holds the ids the server holds, each once.
C6_ServerIsSourceOfTruth ==
  (~loading /\ ~failed /\ Pending(TaskMutations \cup CommentKinds \cup {"listTasks"}) = {})
    => /\ Ids(tasks) = Ids(sTasks)
       /\ Len(tasks) = Cardinality(Ids(tasks))

\* C7: http returns the parsed body of an ok response (null for an empty
\* body, the raw text for invalid JSON) and throws for any other response,
\* with the response's status, the parsed body as payload, and as message
\* body.error.message when present and non-empty, else the status text.
C7_Parsed(text) ==
  IF text = "" THEN JNull
  ELSE IF JSONParse(text).valid THEN JSONParse(text).val
  ELSE JStr(text)

C7_MessagePresent(body) ==
  body.ty = "object" /\ body.error = "object" /\ body.message = "string" /\ body.mstr # ""

C7_HttpOutcome ==
  httpPc = "done" =>
    LET body == C7_Parsed(httpRes.text) IN
    IF httpRes.status \in 200..299
      THEN /\ ~httpOut.threw
           /\ httpOut.body = body
      ELSE /\ httpOut.threw
           /\ httpOut.status = httpRes.status
           /\ httpOut.payload = body
           /\ httpOut.message = IF C7_MessagePresent(body) THEN body.mstr
                                ELSE httpRes.statusText

\* http threw with the message of the error body, not the status text.
C7_Witness ==
  /\ httpPc = "done"
  /\ httpOut.threw
  /\ httpOut.message = "Not found"
  /\ httpRes.statusText = "STATUS TEXT"

\* C8: whenever no listComments request is in flight, every comment the
\* comment list holds belongs to the task selected now.
C8_CommentsOfSelectedTask ==
  (selectedId # NoId /\ Pending({"listComments"}) = {})
    => \A i \in 1..Len(comments) : comments[i].task_id = selectedId

\* C9: the handler of a failed createTask, updateTask or deleteTask leaves
\* the task list and selectedId as they are and issues no request, and a
\* failed create leaves the inputs of the create form as they are.
C9_FailedMutationChangesNothing ==
  [][\A s \in Slots :
       (Handled(s) /\ net[s].kind \in TaskMutations /\ Failed(s))
         => /\ tasks' = tasks
            /\ selectedId' = selectedId
            /\ \A n \in Slots : ~NewRequest(n)
            /\ net[s].kind = "createTask"
                 => (title' = title /\ description' = description)]_vars

\* A create has failed and the form still holds a title.
C9_Witness == listErr = "Internal server error" /\ title # ""

\* C10: the handler of a successful updateTask(id) replaces the entries
\* with that id by the returned entity and changes nothing else: same
\* length and order, other entries and selectedId unchanged, and a task no
\* longer listed is not added again.
C10_UpdatePatchesOneEntry ==
  [][\A s \in Slots :
       (Handled(s) /\ net[s].kind = "updateTask" /\ Succeeded(s))
         => /\ Len(tasks') = Len(tasks)
            /\ \A i \in 1..Len(tasks) :
                 tasks'[i] = IF tasks[i].id = net[s].id THEN net[s].task ELSE tasks[i]
            /\ selectedId' = selectedId
            /\ net[s].id \notin Ids(tasks) => tasks' = tasks]_vars

\* An update has succeeded and the listed task carries the new title.
C10_Witness == \E i \in 1..Len(tasks) : tasks[i].title = "B"

====
